---- MODULE Spec2Model ----
(***************************************************************************)
(* Model of the RAG ingestion-and-retrieval pipeline of RagService         *)
(* (src/src/rag/rag.service.ts), RagController and DatabaseService.        *)
(*                                                                         *)
(* Strings are sequences of one-character strings, so that trimming,       *)
(* splitting, lower-casing and substring matching are computed the way the *)
(* code computes them.  Scores are cosine similarities times 100.          *)
(***************************************************************************)
EXTENDS Integers, Sequences, FiniteSets, TLC

VARIABLES
    chunks,     \* table dashboard_chunks, in created_at order
    graph,      \* table graph_data, in created_at order
    history,    \* table chat_history, in created_at order
    ing,        \* the ingestFile request in flight
    qry,        \* the query request in flight
    segText,    \* chunkText: argument text
    segTarget,  \* chunkText: argument targetTokens
    segChunks,  \* chunkText: returned chunks
    segPc       \* chunkText: "call" before, "ret" after the call

vars == <<chunks, graph, history, ing, qry, segText, segTarget, segChunks, segPc>>
sysVars == <<chunks, graph, history, ing, qry>>
segVars == <<segText, segTarget, segChunks, segPc>>

----------------------------------------------------------------------------
(* Bounds of the model *)

MaxTextLen == 6     \* longest text handed to chunkText in SegSpec
MaxTarget  == 3     \* largest targetTokens handed to chunkText in SegSpec
MaxRows    == 2     \* rows of an uploaded table that has rows
MaxCols    == 1     \* most columns of an uploaded table
MaxK       == 2     \* largest k of a query

----------------------------------------------------------------------------
(* Characters and strings *)

Upper == <<"A","B","C","D","E","F","G","H","I","J","K","L","M",
           "N","O","P","Q","R","S","T","U","V","W","X","Y","Z">>
Lower == <<"a","b","c","d","e","f","g","h","i","j","k","l","m",
           "n","o","p","q","r","s","t","u","v","w","x","y","z">>
Digits == {"0","1","2","3","4","5","6","7","8","9"}

Range(s) == {s[i] : i \in DOMAIN s}

\* the class \s of the regular expressions
IsSpace(c) == c \in {" ", "\n", "\t"}

\* String.prototype.toLowerCase, one character
LowerChar(c) ==
    IF \E i \in DOMAIN Upper : Upper[i] = c
    THEN Lower[CHOOSE i \in DOMAIN Upper : Upper[i] = c]
    ELSE c

toLowerCase(s) == [i \in DOMAIN s |-> LowerChar(s[i])]

RECURSIVE TrimStart(_)
TrimStart(s) ==
    IF s # <<>> /\ IsSpace(Head(s)) THEN TrimStart(Tail(s)) ELSE s

RECURSIVE TrimEnd(_)
TrimEnd(s) ==
    IF s # <<>> /\ IsSpace(s[Len(s)]) THEN TrimEnd(SubSeq(s, 1, Len(s) - 1)) ELSE s

\* String.prototype.trim
Trim(s) == TrimEnd(TrimStart(s))

\* first index >= i of s that is not whitespace, Len(s) + 1 when there is none
RECURSIVE SkipSpaces(_, _)
SkipSpaces(s, i) ==
    IF i <= Len(s) /\ IsSpace(s[i]) THEN SkipSpaces(s, i + 1) ELSE i

\* s.split(/\s+/): the pieces between maximal whitespace runs, empty pieces kept
RECURSIVE SplitWsFrom(_, _, _)
SplitWsFrom(s, i, cur) ==
    IF i > Len(s) THEN <<cur>>
    ELSE IF IsSpace(s[i]) THEN <<cur>> \o SplitWsFrom(s, SkipSpaces(s, i), <<>>)
    ELSE SplitWsFrom(s, i + 1, Append(cur, s[i]))

SplitWs(s) == SplitWsFrom(s, 1, <<>>)

\* Array.prototype.join
RECURSIVE Join(_, _)
Join(parts, sep) ==
    IF parts = <<>> THEN <<>>
    ELSE IF Len(parts) = 1 THEN parts[1]
    ELSE parts[1] \o sep \o Join(Tail(parts), sep)

\* Array.prototype.filter
RECURSIVE SelectNonEmpty(_)
SelectNonEmpty(parts) ==
    IF parts = <<>> THEN <<>>
    ELSE IF Len(Head(parts)) > 0 THEN <<Head(parts)>> \o SelectNonEmpty(Tail(parts))
    ELSE SelectNonEmpty(Tail(parts))

----------------------------------------------------------------------------
(* Segmenter: splitIntoSentences and chunkText *)

SentenceEnd == {".", "!", "?"}

\* text.split(/(?<=[.!?])\s+/): cut at every whitespace run that follows . ! or ?
RECURSIVE SplitSentFrom(_, _, _)
SplitSentFrom(s, i, cur) ==
    IF i > Len(s) THEN <<cur>>
    ELSE IF IsSpace(s[i]) /\ i > 1 /\ s[i - 1] \in SentenceEnd
         THEN <<cur>> \o SplitSentFrom(s, SkipSpaces(s, i), <<>>)
    ELSE SplitSentFrom(s, i + 1, Append(cur, s[i]))

splitIntoSentences(text) ==
    LET pieces == SplitSentFrom(text, 1, <<>>)
    IN  SelectNonEmpty([i \in DOMAIN pieces |-> Trim(pieces[i])])

\* chunkText's push of the running buffer
PushCurrent(out, current) ==
    IF Len(Trim(current)) > 0 THEN Append(out, Trim(current)) ELSE out

\* chunkText's loop with the overflowing sentence not carried into the new buffer
RECURSIVE ChunkLoop_LosesSentence(_, _, _, _)
ChunkLoop_LosesSentence(sentences, current, out, targetTokens) ==
    IF sentences = <<>> THEN PushCurrent(out, current)
    ELSE LET sentence == Head(sentences) IN
         IF Len(SplitWs(current \o <<" ">> \o sentence)) > targetTokens
         THEN ChunkLoop_LosesSentence(Tail(sentences), <<>>,
                                      PushCurrent(out, current), targetTokens)
         ELSE ChunkLoop_LosesSentence(Tail(sentences),
                        IF Len(current) > 0 THEN current \o <<" ">> \o sentence ELSE sentence,
                        out, targetTokens)

\* chunkText's loop over the sentences and its final push
RECURSIVE ChunkLoop(_, _, _, _)
ChunkLoop(sentences, current, out, targetTokens) ==
    IF sentences = <<>> THEN PushCurrent(out, current)
    ELSE LET sentence == Head(sentences) IN
         IF Len(SplitWs(current \o <<" ">> \o sentence)) > targetTokens
         THEN ChunkLoop(Tail(sentences), sentence, PushCurrent(out, current), targetTokens)
         ELSE ChunkLoop(Tail(sentences),
                        IF Len(current) > 0 THEN current \o <<" ">> \o sentence ELSE sentence,
                        out, targetTokens)

chunkText(text, targetTokens) ==
    ChunkLoop(splitIntoSentences(text), <<>>, <<>>, targetTokens)

----------------------------------------------------------------------------
(* Values of the inputs *)

Undefined == <<"undefined_value">>    \* JavaScript undefined

S_AEUUU == <<"A","E","U","U","U">>
S_x     == <<"x">>
S_10    == <<"1","0">>

Max(a, b) == IF a >= b THEN a ELSE b
Min(a, b) == IF a <= b THEN a ELSE b

\* the name of column j: S, T, U, ...
Header(j) == <<Upper[18 + j]>>

\* the value of column j in row i: the first column holds a security, the others a number
Cell(i, j) == IF j > 1 THEN S_10 ELSE IF i = 1 THEN S_AEUUU ELSE S_x

\* a row record is the ordered list of its <<field, value>> pairs; the rows after
\* the first lack the last column
TableRow(i, m) ==
    [j \in 1 .. (IF i = 1 THEN m ELSE Max(m - 1, 0)) |-> <<Header(j), Cell(i, j)>>]

Table(n, m) == [i \in 1 .. n |-> TableRow(i, m)]

\* the table without rows, and the tables of MaxRows rows
Tables == {Table(n, m) : n \in {0, MaxRows}, m \in 0 .. MaxCols}

Sources == {"a", "b"}

NoSheets == << >>
NoRows   == << >>

CsvFiles ==
    {[mimetype |-> mt, ext |-> "csv", records |-> t, sheets |-> NoSheets, text |-> <<>>] :
        mt \in {"text/csv"}, t \in Tables}

\* a workbook of two sheets, the second one empty
WorkbookFiles ==
    {[mimetype |-> "application/vnd.ms-excel", ext |-> "xls", records |-> NoRows,
      sheets |-> << [name |-> <<"n">>, json |-> t], [name |-> <<"m">>, json |-> NoRows] >>,
      text |-> <<>>] : t \in Tables \ {NoRows}}

PriorText == S_AEUUU \o <<".", " ", " ", "x">>

TextFiles ==
    {[mimetype |-> "text/plain", ext |-> "txt", records |-> NoRows, sheets |-> NoSheets,
      text |-> t] : t \in {PriorText, <<" ", "\n">>}}

Files == CsvFiles \cup WorkbookFiles \cup TextFiles

\* createEmbedding: the provider's vector for a text; the vectors are opaque, the
\* model names a vector by the text it was computed from
createEmbedding(input) == [of |-> input]

\* 1 - (embedding <=> $1::vector), times 100: what the similarity of two vectors
\* may be
ScoreValues == {50, 100}

----------------------------------------------------------------------------
(* Tabular deriver: ingestRows and ingestGraphData *)

\* Object.keys(row)
Keys(row) == [i \in DOMAIN row |-> row[i][1]]

\* (row as any)[h]
Get(row, h) ==
    IF \E i \in DOMAIN row : row[i][1] = h
    THEN row[CHOOSE i \in DOMAIN row : row[i][1] = h][2]
    ELSE Undefined

\* String(value)
String(v) == IF v = Undefined THEN <<"u","n","d","e","f","i","n","e","d">> ELSE v

\* value ?? ''
OrEmpty(v) == IF v = Undefined THEN <<>> ELSE v

\* prefix ? `${prefix}\n` : ''
PrefixLine(prefix) ==
    IF prefix = Undefined \/ prefix = <<>> THEN <<>> ELSE prefix \o <<"\n">>

sheetContent(rows, prefix) ==
    LET headers == Keys(rows[1])
        part(row) == Join([j \in DOMAIN headers |->
                              headers[j] \o <<":", " ">> \o String(Get(row, headers[j]))],
                          <<";", " ">>)
        sheetParts == [i \in DOMAIN rows |-> part(rows[i])]
    IN  PrefixLine(prefix) \o Join(sheetParts, <<"\n">>)

colContent(rows, prefix, h) ==
    LET values == [i \in DOMAIN rows |-> String(OrEmpty(Get(rows[i], h)))]
    IN  PrefixLine(prefix) \o <<"C","o","l","u","m","n",":"," ">> \o h \o <<"\n">>
            \o Join(values, <<"\n">>)

\* ingestRows with one more chunk per row
ingestRows_RowChunks(rows, prefix) ==
    IF Len(rows) = 0 THEN <<>>
    ELSE LET headers == Keys(rows[1])
         IN  <<sheetContent(rows, prefix)>>
                 \o [i \in DOMAIN rows |-> sheetContent(<<rows[i]>>, prefix)]
                 \o [j \in DOMAIN headers |-> colContent(rows, prefix, headers[j])]

\* the contents ingestRows hands to insertChunk, in order
ingestRows(rows, prefix) ==
    IF Len(rows) = 0 THEN <<>>
    ELSE LET headers == Keys(rows[1])
         IN  <<sheetContent(rows, prefix)>>
                 \o [j \in DOMAIN headers |-> colContent(rows, prefix, headers[j])]

\* the table_data ingestGraphData inserts, in order
ingestGraphData(rows) ==
    IF Len(rows) = 0 THEN <<>> ELSE <<rows>>

ChunkOps(contents) == [i \in DOMAIN contents |-> [op |-> "chunk", content |-> contents[i]]]
GraphOps(tables)   == [i \in DOMAIN tables |-> [op |-> "graph", rows |-> tables[i]]]

\* one sheet of a workbook: ingestRows with the sheet prefix, then ingestGraphData
RECURSIVE SheetOps(_)
SheetOps(sheets) ==
    IF sheets = <<>> THEN <<>>
    ELSE LET sheet == Head(sheets)
             prefix == <<"S","h","e","e","t",":"," ">> \o sheet.name
         IN  ChunkOps(ingestRows(sheet.json, prefix))
                 \o GraphOps(ingestGraphData(sheet.json))
                 \o SheetOps(Tail(sheets))

IsCsv(file) == file.mimetype = "text/csv" \/ file.ext = "csv"

IsWorkbook(file) ==
    \/ file.mimetype = "application/vnd.openxmlformats-officedocument.spreadsheetml.sheet"
    \/ file.mimetype = "application/vnd.ms-excel"
    \/ file.ext = "xlsx"
    \/ file.ext = "xls"

\* the store writes of ingestFile, in the order it awaits them
ingestFile(file) ==
    IF IsCsv(file)
    THEN ChunkOps(ingestRows(file.records, Undefined)) \o GraphOps(ingestGraphData(file.records))
    ELSE IF IsWorkbook(file) THEN SheetOps(file.sheets)
    ELSE ChunkOps(chunkText(file.text, 120))

----------------------------------------------------------------------------
(* Ingestion requests *)

\* chunks0 and graph0 are the sizes of the two tables when the request began
IngIdle == [pc |-> "idle", source |-> "a", file |-> CHOOSE f \in Files : TRUE,
            plan |-> <<>>, inserted |-> 0, graphDataInserted |-> 0,
            chunks0 |-> 0, graph0 |-> 0]

\* POST /rag/ingest/file: RagController.ingestFile calls RagService.ingestFile
IngestStart ==
    /\ ing.pc = "idle"
    /\ \E source \in Sources, file \in Files :
          ing' = [pc |-> "run", source |-> source,
                  file |-> file, plan |-> ingestFile(file),
                  inserted |-> 0, graphDataInserted |-> 0,
                  chunks0 |-> Len(chunks), graph0 |-> Len(graph)]
    /\ UNCHANGED <<chunks, graph, history, qry, segVars>>

\* insertChunk: createEmbedding, then INSERT INTO dashboard_chunks
insertChunk(source, content) ==
    Append(chunks, [id |-> Len(chunks) + 1, source |-> source,
                    content |-> content, embedding |-> createEmbedding(content)])

IngestInsertChunk ==
    /\ ing.pc = "run"
    /\ ing.plan # <<>>
    /\ Head(ing.plan).op = "chunk"
    /\ chunks' = insertChunk(ing.source, Head(ing.plan).content)
    /\ ing' = [ing EXCEPT !.plan = Tail(@), !.inserted = @ + 1]
    /\ UNCHANGED <<graph, history, qry, segVars>>

\* ingestGraphData's INSERT INTO graph_data
IngestInsertGraph ==
    /\ ing.pc = "run"
    /\ ing.plan # <<>>
    /\ Head(ing.plan).op = "graph"
    /\ graph' = Append(graph, [source |-> ing.source, table_data |-> Head(ing.plan).rows])
    /\ ing' = [ing EXCEPT !.plan = Tail(@), !.graphDataInserted = @ + 1]
    /\ UNCHANGED <<chunks, history, qry, segVars>>

\* ingestFile returns { inserted, graphDataInserted }
IngestReturn ==
    /\ ing.pc = "run"
    /\ ing.plan = <<>>
    /\ ing' = [ing EXCEPT !.pc = "done"]
    /\ UNCHANGED <<chunks, graph, history, qry, segVars>>

\* the failing request with its chunks deleted again
IngestFail_Rollback ==
    /\ ing.pc = "run"
    /\ ing.plan # <<>>
    /\ ing' = [ing EXCEPT !.pc = "failed"]
    /\ chunks' = SubSeq(chunks, 1, ing.chunks0)
    /\ UNCHANGED <<graph, history, qry, segVars>>

\* createEmbedding or db.query throws: the request is rejected, nothing is undone
IngestFail ==
    /\ ing.pc = "run"
    /\ ing.plan # <<>>
    /\ ing' = [ing EXCEPT !.pc = "failed"]
    /\ UNCHANGED <<chunks, graph, history, qry, segVars>>

----------------------------------------------------------------------------
(* Lexical fallback: keywordFallbackSearch *)

stopwords == {
    <<"w","h","a","t">>,
    <<"i","s">>,
    <<"t","h","e">>,
    <<"o","f">>,
    <<"f","o","r">>,
    <<"a">>,
    <<"a","n">>,
    <<"a","n","d">>,
    <<"o","r">>,
    <<"t","o">>,
    <<"m","e">>,
    <<"d","a","t","a">>,
    <<"g","i","v","e">>,
    <<"p","r","o","v","i","d","e">>,
    <<"s","h","o","w">>,
    <<"p","l","e","a","s","e">>,
    <<"a","b","o","u","t">>
}

Questions == {
    S_AEUUU,
    <<"w","h","a","t"," ","i","s"," ","t","h","e"," ","d","a","t","a">>,
    <<"A","E","U","U","U",","," ","1","0">>
}

\* the characters the replace of keywordFallbackSearch keeps: [a-z0-9()\s.-]
IsKept(c) ==
    \/ \E i \in DOMAIN Lower : Lower[i] = c
    \/ c \in Digits
    \/ c \in {"(", ")", ".", "-"}
    \/ IsSpace(c)

\* .replace(/[^a-z0-9()\s.-]/g, ' ')
ReplaceOthers(s) == [i \in DOMAIN s |-> IF IsKept(s[i]) THEN s[i] ELSE " "]

\* .filter(Boolean).filter(not a stopword).filter(length >= 2)
RECURSIVE FilterTokens(_)
FilterTokens(parts) ==
    IF parts = <<>> THEN <<>>
    ELSE LET t == Head(parts) IN
         IF Len(t) > 0 /\ t \notin stopwords /\ Len(t) >= 2
         THEN <<t>> \o FilterTokens(Tail(parts))
         ELSE FilterTokens(Tail(parts))

rawTokens(question) == FilterTokens(SplitWs(ReplaceOthers(toLowerCase(question))))

\* content ILIKE '%token%'
ILike(content, token) ==
    LET lc == toLowerCase(content)
    IN  \E i \in 1 .. (Len(lc) - Len(token) + 1) :
            SubSeq(lc, i, i + Len(token) - 1) = token

\* the WHERE clause: the conjunction of one ILIKE per token, TRUE without tokens
Where(content, tokens) == \A j \in DOMAIN tokens : ILike(content, tokens[j])

\* the same SELECT with ORDER BY created_at ASC
RECURSIVE NewestFirst_OldestFirst(_, _)
NewestFirst_OldestFirst(rows, k) ==
    IF rows = <<>> \/ k <= 0 THEN <<>>
    ELSE <<[id |-> Head(rows).id, content |-> Head(rows).content]>>
             \o NewestFirst_OldestFirst(Tail(rows), k - 1)

\* SELECT id, content FROM rows ORDER BY created_at DESC LIMIT k, rows already filtered
RECURSIVE NewestFirst(_, _)
NewestFirst(rows, k) ==
    IF rows = <<>> \/ k <= 0 THEN <<>>
    ELSE <<[id |-> rows[Len(rows)].id, content |-> rows[Len(rows)].content]>>
             \o NewestFirst(SubSeq(rows, 1, Len(rows) - 1), k - 1)

RECURSIVE SelectWhere(_, _)
SelectWhere(rows, tokens) ==
    IF rows = <<>> THEN <<>>
    ELSE IF Where(Head(rows).content, tokens)
         THEN <<Head(rows)>> \o SelectWhere(Tail(rows), tokens)
    ELSE SelectWhere(Tail(rows), tokens)

keywordFallbackSearch(table, question, k) ==
    NewestFirst(SelectWhere(table, rawTokens(question)), k)

----------------------------------------------------------------------------
(* Semantic search, merge and ranking of query *)

SemanticLimit == 5      \* the LIMIT parameter of the semantic SELECT
KeywordScore  == 75     \* the score given to keyword-only hits, 0.75

\* SELECT id, content, score ORDER BY score DESC LIMIT limit: the scores are a
\* function of the stored vectors, and every order of the rows that is
\* non-increasing in score is a possible answer (ties are unordered)
SemanticSearch(table, qEmbedding, limit) ==
    LET N == Len(table)
        Vectors == {table[i].embedding : i \in 1 .. N}
        Orders(sc) == {p \in [1 .. N -> 1 .. N] :
                          /\ \A i, j \in 1 .. N : i # j => p[i] # p[j]
                          /\ \A i \in 1 .. (N - 1) :
                                sc[table[p[i]].embedding] >= sc[table[p[i + 1]].embedding]}
    IN  {[i \in 1 .. Min(limit, N) |->
             [id |-> table[p[i]].id, content |-> table[p[i]].content,
              score |-> sc[table[p[i]].embedding]]]
         : <<sc, p>> \in UNION {{<<f, q>> : q \in Orders(f)} : f \in [Vectors -> ScoreValues]}}

HasId(rows, id) == \E i \in DOMAIN rows : rows[i].id = id

\* Step 3 without the has() test: a keyword row replaces the entry of its id
RECURSIVE AddKeywordRows_Overwrites(_, _)
AddKeywordRows_Overwrites(combined, keywordRows) ==
    IF keywordRows = <<>> THEN combined
    ELSE LET row == Head(keywordRows)
             entry == [id |-> row.id, content |-> row.content, score |-> KeywordScore]
         IN  IF ~HasId(combined, row.id)
             THEN AddKeywordRows_Overwrites(Append(combined, entry), Tail(keywordRows))
             ELSE AddKeywordRows_Overwrites(
                      [i \in DOMAIN combined |->
                          IF combined[i].id = row.id THEN entry ELSE combined[i]],
                      Tail(keywordRows))

\* Step 3 of query: the Map keyed by id, in insertion order
RECURSIVE AddKeywordRows(_, _)
AddKeywordRows(combined, keywordRows) ==
    IF keywordRows = <<>> THEN combined
    ELSE LET row == Head(keywordRows) IN
         IF ~HasId(combined, row.id)
         THEN AddKeywordRows(Append(combined, [id |-> row.id, content |-> row.content,
                                               score |-> KeywordScore]),
                             Tail(keywordRows))
         ELSE AddKeywordRows(combined, Tail(keywordRows))

combinedMap(semanticRows, keywordRows) == AddKeywordRows(semanticRows, keywordRows)

\* the sort with the comparator a.score - b.score: ascending score
RECURSIVE SortByScore_Ascending(_)
SortByScore_Ascending(rows) ==
    IF rows = <<>> THEN <<>>
    ELSE LET sorted == SortByScore_Ascending(SubSeq(rows, 1, Len(rows) - 1))
             r == rows[Len(rows)]
             n == Cardinality({i \in DOMAIN sorted : sorted[i].score <= r.score})
         IN  SubSeq(sorted, 1, n) \o <<r>> \o SubSeq(sorted, n + 1, Len(sorted))

\* Array.prototype.sort((a, b) => b.score - a.score): stable, descending score
RECURSIVE SortByScore(_)
SortByScore(rows) ==
    IF rows = <<>> THEN <<>>
    ELSE LET sorted == SortByScore(SubSeq(rows, 1, Len(rows) - 1))
             r == rows[Len(rows)]
             n == Cardinality({i \in DOMAIN sorted : sorted[i].score >= r.score})
         IN  SubSeq(sorted, 1, n) \o <<r>> \o SubSeq(sorted, n + 1, Len(sorted))

\* .slice(0, k)
Slice(rows, k) == SubSeq(rows, 1, Min(k, Len(rows)))

finalRows(semanticRows, keywordRows, k) ==
    Slice(SortByScore(combinedMap(semanticRows, keywordRows)), k)

\* getChatHistory(page, limit): ORDER BY created_at DESC LIMIT limit OFFSET (page - 1) * limit
RECURSIVE Reverse(_)
Reverse(s) == IF s = <<>> THEN <<>> ELSE <<s[Len(s)]>> \o Reverse(SubSeq(s, 1, Len(s) - 1))

getChatHistory(page, limit) ==
    LET offset == (page - 1) * limit
        newest == Reverse(history)
    IN  SubSeq(newest, offset + 1, Min(offset + limit, Len(newest)))

----------------------------------------------------------------------------
(* Query requests *)

NoSource == "undefined"     \* the source parameter is absent

QuerySources == {NoSource, "a"}

\* what the completion provider may answer; no content gives ''
Answers == {<<>>, <<"o","k">>}

NoVector == [of |-> Undefined]

QryIdle == [pc |-> "idle", failedAt |-> "", question |-> <<>>, k |-> 0, source |-> NoSource,
            qEmbedding |-> NoVector, semanticRows |-> <<>>, keywordRows |-> <<>>,
            finalRows |-> <<>>, chatHistory |-> <<>>, answer |-> <<>>]

\* GET /rag/query: RagController.query calls ragService.query(question, Number(k), source);
\* RagService.query has the parameters (question, k) only
QueryStart ==
    /\ qry.pc = "idle"
    /\ \E question \in Questions, k \in 1 .. MaxK, source \in QuerySources :
          qry' = [QryIdle EXCEPT !.pc = "embed",
                                 !.question = question, !.k = k, !.source = source]
    /\ UNCHANGED <<chunks, graph, history, ing, segVars>>

\* const qEmbedding = await this.createEmbedding(question)
QueryEmbed ==
    /\ qry.pc = "embed"
    /\ qry' = [qry EXCEPT !.pc = "semantic", !.qEmbedding = createEmbedding(qry.question)]
    /\ UNCHANGED <<chunks, graph, history, ing, segVars>>

\* Step 1: the semantic SELECT
QuerySemantic ==
    /\ qry.pc = "semantic"
    /\ \E rows \in SemanticSearch(chunks, qry.qEmbedding, SemanticLimit) :
          qry' = [qry EXCEPT !.pc = "keyword", !.semanticRows = rows]
    /\ UNCHANGED <<chunks, graph, history, ing, segVars>>

\* Steps 2 to 4: the keyword SELECT, then the merge, the sort and the slice
QueryKeyword ==
    /\ qry.pc = "keyword"
    /\ LET keywordRows == keywordFallbackSearch(chunks, qry.question, qry.k)
       IN  qry' = [qry EXCEPT !.pc = "history", !.keywordRows = keywordRows,
                              !.finalRows = finalRows(qry.semanticRows, keywordRows, qry.k)]
    /\ UNCHANGED <<chunks, graph, history, ing, segVars>>

\* const chatHistory = await this.getChatHistory(1, 3); semanticRows and
\* keywordRows are not read again
QueryHistory ==
    /\ qry.pc = "history"
    /\ qry' = [qry EXCEPT !.pc = "generate", !.chatHistory = getChatHistory(1, 3),
                          !.semanticRows = <<>>, !.keywordRows = <<>>]
    /\ UNCHANGED <<chunks, graph, history, ing, segVars>>

\* Step 5: const answer = await this.generateAnswer(...)
QueryGenerate ==
    /\ qry.pc = "generate"
    /\ \E answer \in Answers : qry' = [qry EXCEPT !.pc = "save", !.answer = answer]
    /\ UNCHANGED <<chunks, graph, history, ing, segVars>>

\* INSERT INTO chat_history (query, response)
saveChatHistory(query, response) ==
    Append(history, [query |-> query, response |-> response])

\* await this.saveChatHistory(question, answer); return { answer, contexts: finalRows }
QuerySave ==
    /\ qry.pc = "save"
    /\ history' = saveChatHistory(qry.question, qry.answer)
    /\ qry' = [QryIdle EXCEPT !.pc = "done", !.question = qry.question, !.k = qry.k,
                              !.source = qry.source, !.answer = qry.answer,
                              !.finalRows = qry.finalRows]
    /\ UNCHANGED <<chunks, graph, ing, segVars>>

\* the failing request with a turn saved for it all the same
QueryFail_SavesTurn ==
    /\ qry.pc \in {"embed", "semantic", "keyword", "history", "generate", "save"}
    /\ qry' = [QryIdle EXCEPT !.pc = "failed", !.failedAt = qry.pc]
    /\ history' = Append(history, [query |-> qry.question, response |-> <<>>])
    /\ UNCHANGED <<chunks, graph, ing, segVars>>

\* a provider call or db.query of the request throws at the await it has reached:
\* the request is rejected, its locals are gone
QueryFail ==
    /\ qry.pc \in {"embed", "semantic", "keyword", "history", "generate", "save"}
    /\ qry' = [QryIdle EXCEPT !.pc = "failed", !.failedAt = qry.pc]
    /\ UNCHANGED <<chunks, graph, history, ing, segVars>>

----------------------------------------------------------------------------
(* The system: one ingestion request and one query request, interleaved at    *)
(* their awaits, on tables that may hold the rows of an earlier run (the       *)
(* tables are created IF NOT EXISTS and outlive the process)                   *)

\* the chunk an earlier ingestion of PriorText under source "b" has left
PriorChunks ==
    LET content == chunkText(PriorText, 120)[1]
    IN  <<[id |-> 1, source |-> "b", content |-> content,
           embedding |-> createEmbedding(content)]>>

\* the turn an earlier query has left
PriorTurn == [query |-> S_AEUUU, response |-> <<>>]

Init ==
    /\ \/ chunks = <<>> /\ history = <<>>
       \/ chunks = PriorChunks /\ history = <<PriorTurn>>
    /\ graph = <<>>
    /\ ing = IngIdle
    /\ qry = QryIdle
    /\ segText = <<>>
    /\ segTarget = 0
    /\ segChunks = <<>>
    /\ segPc = "off"

Next ==
    \/ IngestStart
    \/ IngestInsertChunk
    \/ IngestInsertGraph
    \/ IngestReturn
    \/ IngestFail
    \/ QueryStart
    \/ QueryEmbed
    \/ QuerySemantic
    \/ QueryKeyword
    \/ QueryHistory
    \/ QueryGenerate
    \/ QuerySave
    \/ QueryFail

Spec == Init /\ [][Next]_vars

(* The Segmenter alone: chunkText applied to every text over SegAlphabet *)

SegAlphabet == {"a", " ", "."}

SegTexts == UNION {[1 .. n -> SegAlphabet] : n \in 0 .. MaxTextLen}

SegInit ==
    /\ chunks = <<>>
    /\ graph = <<>>
    /\ history = <<>>
    /\ ing = IngIdle
    /\ qry = QryIdle
    /\ segText \in SegTexts
    /\ segTarget \in 0 .. MaxTarget
    /\ segChunks = <<>>
    /\ segPc = "call"

SegCall ==
    /\ segPc = "call"
    /\ segChunks' = chunkText(segText, segTarget)
    /\ segPc' = "ret"
    /\ UNCHANGED <<segText, segTarget, sysVars>>

SegNext == SegCall

SegSpec == SegInit /\ [][SegNext]_vars

----------------------------------------------------------------------------
(* Properties *)

\* the row of dashboard_chunks with the given id
ChunkOf(id) == chunks[CHOOSE i \in DOMAIN chunks : chunks[i].id = id]

\* case-sensitive: the text holds the word
Contains(text, word) ==
    \E i \in 1 .. (Len(text) - Len(word) + 1) : SubSeq(text, i, i + Len(word) - 1) = word

Merged == qry.pc = "history"
Returned == qry.pc = "done"

\* C1: a query given a source filter returns only contexts of that source
C1_SourceFilter ==
    (Returned /\ qry.source # NoSource) =>
        \A i \in DOMAIN qry.finalRows : ChunkOf(qry.finalRows[i].id).source = qry.source

\* the rows dashboard_chunks held before the ingestion request, hence before
\* the query request
PriorCount == IF ing.pc = "idle" THEN Len(chunks) ELSE ing.chunks0

TokenStoredBefore ==
    \E i \in 1 .. PriorCount : Contains(chunks[i].content, S_AEUUU)

TokenReturned(rows) ==
    \E i \in DOMAIN rows : Contains(rows[i].content, S_AEUUU)

AllNotBlank == \A i \in DOMAIN chunks : Len(Trim(chunks[i].content)) > 0

\* C2: once a chunk holding AEUUU is stored, a later query for AEUUU returns a
\* context holding it, for any k >= 1 (here on stores without blank contents)
C2_RoundTrip ==
    (Returned /\ qry.question = S_AEUUU /\ qry.k >= 1 /\ TokenStoredBefore /\ AllNotBlank) =>
        TokenReturned(qry.finalRows)

\* the chunks and snapshots one table must add: m + 1 and 1, nothing without rows
ExpectedChunks(rows) == IF Len(rows) >= 1 THEN Len(rows[1]) + 1 ELSE 0
ExpectedSnapshots(rows) == IF Len(rows) >= 1 THEN 1 ELSE 0

RECURSIVE SumOver(_, _)
SumOver(Op(_), sheets) ==
    IF sheets = <<>> THEN 0 ELSE Op(Head(sheets).json) + SumOver(Op, Tail(sheets))

TabularDone == ing.pc = "done" /\ (IsCsv(ing.file) \/ IsWorkbook(ing.file))

\* C3: a completed ingestion of a table of n >= 1 rows and m columns has added
\* m + 1 chunks and one snapshot, and of a table without rows nothing
C3_TabularCounts ==
    TabularDone =>
        LET expChunks == IF IsCsv(ing.file) THEN ExpectedChunks(ing.file.records)
                         ELSE SumOver(ExpectedChunks, ing.file.sheets)
            expSnaps == IF IsCsv(ing.file) THEN ExpectedSnapshots(ing.file.records)
                        ELSE SumOver(ExpectedSnapshots, ing.file.sheets)
        IN  /\ Len(chunks) - ing.chunks0 = expChunks
            /\ Len(graph) - ing.graph0 = expSnaps
            /\ ing.inserted = expChunks
            /\ ing.graphDataInserted = expSnaps

C3_Witness ==
    /\ TabularDone
    /\ IsCsv(ing.file)
    /\ Len(ing.file.records) >= 1
    /\ Len(ing.file.records[1]) >= 1
    /\ Len(chunks) - ing.chunks0 = Len(ing.file.records[1]) + 1
    /\ Len(graph) - ing.graph0 = 1

ScoreOf(rows, id) == rows[CHOOSE i \in DOMAIN rows : rows[i].id = id].score

\* C4: after the merge no id occurs twice in the ranked output, and a chunk that
\* both searches returned carries its semantic score
C4_MergeById ==
    Merged =>
        /\ \A i, j \in DOMAIN qry.finalRows :
              qry.finalRows[i].id = qry.finalRows[j].id => i = j
        /\ \A i \in DOMAIN qry.finalRows :
              (HasId(qry.semanticRows, qry.finalRows[i].id)
                  /\ HasId(qry.keywordRows, qry.finalRows[i].id)) =>
                  qry.finalRows[i].score = ScoreOf(qry.semanticRows, qry.finalRows[i].id)

C4_Witness ==
    /\ Merged
    /\ \E i \in DOMAIN qry.finalRows :
          /\ HasId(qry.semanticRows, qry.finalRows[i].id)
          /\ HasId(qry.keywordRows, qry.finalRows[i].id)
          /\ qry.finalRows[i].score # KeywordScore

\* C5: the returned contexts are in non-increasing order of score
C5_SortedByScore ==
    (Merged \/ Returned) =>
        \A i \in 1 .. (Len(qry.finalRows) - 1) :
            qry.finalRows[i].score >= qry.finalRows[i + 1].score

C5_Witness ==
    /\ Returned
    /\ \E i \in 1 .. (Len(qry.finalRows) - 1) :
          /\ qry.finalRows[i].score > KeywordScore
          /\ qry.finalRows[i + 1].score = KeywordScore

\* C6: no stored chunk has an empty or whitespace-only content
C6_ContentNotBlank ==
    \A i \in DOMAIN chunks : Len(Trim(chunks[i].content)) > 0

\* the first j >= 1 sentences whose join is the chunk, 0 when there are none
GroupLen(chunk, sentences) ==
    LET fits == {j \in 1 .. Len(sentences) : Join(SubSeq(sentences, 1, j), <<" ">>) = chunk}
    IN  IF fits = {} THEN 0 ELSE CHOOSE j \in fits : TRUE

\* the chunks are, in order, joins of consecutive groups of whole sentences that
\* use every sentence once
RECURSIVE Regroups(_, _)
Regroups(out, sentences) ==
    IF out = <<>> THEN sentences = <<>>
    ELSE LET j == GroupLen(Head(out), sentences)
         IN  j > 0 /\ Regroups(Tail(out), SubSeq(sentences, j + 1, Len(sentences)))

\* C7: every chunk of chunkText is non-empty after trimming, and the chunks in
\* order are the sentences of the text in order, each once and none split
C7_ChunksKeepSentences ==
    segPc = "ret" =>
        /\ \A i \in DOMAIN segChunks : Len(Trim(segChunks[i])) > 0
        /\ Regroups(segChunks, splitIntoSentences(segText))
        /\ splitIntoSentences(Join(segChunks, <<" ">>)) = splitIntoSentences(segText)

C7_Witness ==
    /\ segPc = "ret"
    /\ Len(segChunks) >= 2
    /\ Len(splitIntoSentences(segText)) > Len(segChunks)
    /\ Regroups(segChunks, splitIntoSentences(segText))

\* the k most recently created rows of the table, newest first
MostRecent(table, k) ==
    [i \in 1 .. Min(k, Len(table)) |->
        [id |-> table[Len(table) + 1 - i].id, content |-> table[Len(table) + 1 - i].content]]

\* C8: for a question without keywords the lexical fallback returns at most k
\* chunks, the most recently created ones
C8_NoKeywords ==
    [][(qry.pc = "keyword" /\ qry'.pc = "history" /\ rawTokens(qry.question) = <<>>) =>
          /\ Len(qry'.keywordRows) <= qry.k
          /\ qry'.keywordRows = MostRecent(chunks, qry.k)]_vars

C8_Witness ==
    /\ Merged
    /\ rawTokens(qry.question) = <<>>
    /\ Len(qry.keywordRows) = qry.k
    /\ Len(chunks) > qry.k
    /\ qry.keywordRows = MostRecent(chunks, qry.k)

\* C9: a turn is appended only by a query that returns, one per query and with
\* its answer; a query that fails appends none; no turn is changed or removed
C9_OneTurnPerQuery ==
    [][/\ (history' # history) =>
              /\ qry.pc = "save"
              /\ qry'.pc = "done"
              /\ history' = Append(history, [query |-> qry.question, response |-> qry.answer])
       /\ (qry'.pc = "done" /\ qry.pc # "done") => Len(history') = Len(history) + 1
       /\ (qry'.pc = "failed") => history' = history
       /\ SubSeq(history', 1, Len(history)) = history]_vars

C9_Witness ==
    /\ Returned
    /\ Len(history) = 2
    /\ history[1] = PriorTurn
    /\ history[2] = [query |-> qry.question, response |-> qry.answer]

\* the contents the request hands to insertChunk, in order
PlannedContents(file) ==
    LET plan == ingestFile(file)
        idx == {i \in DOMAIN plan : plan[i].op = "chunk"}
        Nth(S, n) == CHOOSE i \in S : Cardinality({j \in S : j < i}) = n - 1
    IN  [n \in 1 .. Cardinality(idx) |-> plan[Nth(idx, n)].content]

\* C10: after an ingestion request has failed, the chunks it had written are in
\* the store, they are the first of its chunks, and it writes no more
C10_NoRollback ==
    ing.pc = "failed" =>
        /\ Len(chunks) = ing.chunks0 + ing.inserted
        /\ ing.plan # <<>>
        /\ \A n \in 1 .. ing.inserted :
              /\ chunks[ing.chunks0 + n].source = ing.source
              /\ chunks[ing.chunks0 + n].content = PlannedContents(ing.file)[n]

C10_Witness ==
    /\ ing.pc = "failed"
    /\ ing.inserted >= 1
    /\ ing.inserted < Len(PlannedContents(ing.file))
    /\ Len(chunks) = ing.chunks0 + ing.inserted
    /\ Returned
    /\ \E i \in DOMAIN qry.finalRows : qry.finalRows[i].id > ing.chunks0

\* C11: the semantic step of a query hands the merge min(k, number of stored
\* chunks) candidates, the chunks of highest similarity in non-increasing order
C11_SemanticCountFollowsK ==
    [][(qry.pc = "semantic" /\ qry'.pc = "keyword") =>
          /\ Len(qry'.semanticRows) = Min(qry.k, Len(chunks))
          /\ \A i \in 1 .. (Len(qry'.semanticRows) - 1) :
                qry'.semanticRows[i].score >= qry'.semanticRows[i + 1].score
          /\ \A i \in DOMAIN qry'.semanticRows :
                \E j \in DOMAIN chunks : chunks[j].id = qry'.semanticRows[i].id]_vars

====
